---------------------------- MODULE Spec2Model ----------------------------
(*************************************************************************)
(* The note-history and continuation-scheduling engine of the piano      *)
(* (class Piano, src/assets/js/piano.js lines 624-1093), with the        *)
(* collaborators it drives: the wall clock (Date), the browser timers    *)
(* (setInterval / setTimeout), the Tone.Transport timeline and the       *)
(* asynchronous generative model.                                        *)
(*                                                                       *)
(* Time.  Wall-clock times and timeline positions are integers in units  *)
(* of 375 ms (160 units to the minute), so that one tick at 80 bpm and   *)
(* one tick per beat is 2 units and half a tick is 1 unit.  The program  *)
(* constants below are the source's values in that unit, rounded to the  *)
(* grid.  The wall clock advances by one poll period at a time: the idle *)
(* poll is the finest timer of the engine.                               *)
(*                                                                       *)
(* Objects.  Notes and Histories are objects with identity; a Note is    *)
(* shared by reference between the active set, the queue and the         *)
(* History.  notes and histories are the heaps, indexed by object id.    *)
(*************************************************************************)
EXTENDS Integers, Sequences, FiniteSets, TLC

(* ------------------------------ bounds -------------------------------- *)
\* last wall-clock instant explored
MaxTime == 14
\* number of Note objects ever constructed
MaxNotes == 4
\* number of History objects ever constructed
MaxHistories == 3
\* number of model calls awaiting their result at one time
MaxCalls == 2
\* number of user inputs (key events, example and replay clicks)
MaxInputs == 4

(* ------------------------- program constants -------------------------- *)
UnitsPerMinute == 160
ticksPerBeat == 1
bufferBeats == 6
historyWindowBeats == 42
defaultBPM == 80
minBPM == 52
maxBPM == 100
pollPeriod == 2
inputWaitTime == 4
startModelDelayMs == 2
secondsToRewind == 21
secondsToReplay == 8
checkActivityPeriod == 14
activityTimeout == 800
HELD == -1
NULL == -1

NoError == "none"
Keys == {1}
Player == "Player"
Model == "Model"
Bot == "Bot"

(* ------------------------------ helpers ------------------------------- *)
Max(a, b) == IF a >= b THEN a ELSE b

Abs(a) == IF a >= 0 THEN a ELSE -a

\* JavaScript's % : the remainder has the sign of the dividend
JsRem(a, b) == IF a >= 0 THEN a % b ELSE -((-a) % b)

\* Math.ceil(a / b) for b > 0
Ceil(a, b) == IF a >= 0 THEN (a + b - 1) \div b ELSE -((-a) \div b)

SeqRemoveAt(q, i) == SubSeq(q, 1, i - 1) \o SubSeq(q, i + 1, Len(q))

\* Array.prototype.indexOf, 1-based, 0 when absent
IndexOf(q, x) ==
  IF \E i \in 1..Len(q) : q[i] = x
  THEN CHOOSE i \in 1..Len(q) : q[i] = x /\ \A j \in 1..(i - 1) : q[j] # x
  ELSE 0

(* --------------------------- Clock/Timebase --------------------------- *)
beatsToSeconds(p, beats) == (beats * UnitsPerMinute) \div p.bpm

getInterval(p) == beatsToSeconds(p, 1) \div ticksPerBeat

roundToOffset(p, time) ==
  LET interval == getInterval(p)
      remainder == JsRem(time + (interval \div 2), interval)
  IN time - remainder + interval


(* ------------------------------- state -------------------------------- *)
VARIABLES
  now,                     \* wall clock (new Date())
  lastActivity,            \* Piano.lastActivity
  modelStartTime,          \* Piano.modelStartTime, NULL when the model is stopped
  callModelEnd,            \* Piano.callModelEnd
  bpm,                     \* PianoAudio.bpm
  toneStarted,             \* PianoAudio.toneStarted
  awaitingInput,           \* Piano.awaitingInput
  notes,                   \* heap of Note objects
  histories,               \* heap of History objects
  currHistory,             \* Piano.currHistory, 0 for null
  allHistories,            \* Piano.allHistories
  activeNotes,             \* Piano.activeNotes
  noteQueue,               \* Piano.noteQueue
  noteBuffer,              \* Piano.noteBuffer
  listenerIntervalId,      \* timer of seedInputAwaiter
  callModelIntervalId,     \* timer of callModel
  checkActivityIntervalId, \* timer of checkActivity
  startModelScheduleId,    \* debounce timeout of rewind
  timeouts,                \* due times of the startModel timeouts still pending
  running,                 \* Tone.Transport is started
  startPending,            \* Tone.start() has not resolved yet
  seconds,                 \* Tone.Transport.seconds
  timeline,                \* notes with a pending Tone.Transport callback
  startModelEvent,         \* time of the Tone.Transport callback of scheduleStartModel
  calls,                   \* model calls awaiting generateNotes
  raised,                  \* error raised by the last handler
  log,                     \* record of what the last handler did to the scheduler
  run,                     \* window ends requested since the scheduler was last started
  inputs,                  \* number of user inputs so far
  probe                    \* argument and result of a function applied on its own

vars == << now, lastActivity, modelStartTime, callModelEnd, bpm, toneStarted,
           awaitingInput, notes, histories, currHistory, allHistories,
           activeNotes, noteQueue, noteBuffer, listenerIntervalId,
           callModelIntervalId, checkActivityIntervalId, startModelScheduleId,
           timeouts, running, startPending, seconds, timeline, startModelEvent, calls,
           raised, log, run, inputs, probe >>

\* the state as one record, the `this` of the methods below
This ==
  [ now |-> now, lastActivity |-> lastActivity, modelStartTime |-> modelStartTime,
    callModelEnd |-> callModelEnd, bpm |-> bpm, toneStarted |-> toneStarted,
    awaitingInput |-> awaitingInput, notes |-> notes, histories |-> histories,
    currHistory |-> currHistory, allHistories |-> allHistories,
    activeNotes |-> activeNotes, noteQueue |-> noteQueue, noteBuffer |-> noteBuffer,
    listenerIntervalId |-> listenerIntervalId,
    callModelIntervalId |-> callModelIntervalId,
    checkActivityIntervalId |-> checkActivityIntervalId,
    startModelScheduleId |-> startModelScheduleId, timeouts |-> timeouts,
    running |-> running, startPending |-> startPending, seconds |-> seconds, timeline |-> timeline,
    startModelEvent |-> startModelEvent, calls |-> calls, raised |-> raised,
    log |-> log, run |-> run, inputs |-> inputs ]

\* the handler ends in state p
Commit(p) ==
  /\ now' = p.now
  /\ lastActivity' = p.lastActivity
  /\ modelStartTime' = p.modelStartTime
  /\ callModelEnd' = p.callModelEnd
  /\ bpm' = p.bpm
  /\ toneStarted' = p.toneStarted
  /\ awaitingInput' = p.awaitingInput
  /\ notes' = p.notes
  /\ histories' = p.histories
  /\ currHistory' = p.currHistory
  /\ allHistories' = p.allHistories
  /\ activeNotes' = p.activeNotes
  /\ noteQueue' = p.noteQueue
  /\ noteBuffer' = p.noteBuffer
  /\ listenerIntervalId' = p.listenerIntervalId
  /\ callModelIntervalId' = p.callModelIntervalId
  /\ checkActivityIntervalId' = p.checkActivityIntervalId
  /\ startModelScheduleId' = p.startModelScheduleId
  /\ timeouts' = p.timeouts
  /\ running' = p.running
  /\ startPending' = p.startPending
  /\ seconds' = p.seconds
  /\ timeline' = p.timeline
  /\ startModelEvent' = p.startModelEvent
  /\ calls' = p.calls
  /\ raised' = p.raised
  /\ log' = p.log
  /\ run' = p.run
  /\ inputs' = p.inputs
  /\ probe' = probe

\* a cleared (or never set) timer
NoTimer == [alive |-> FALSE, due |-> 0, period |-> 0]

\* setInterval(f, period) and setTimeout(f, period) called at time t
Timer(t, period) == [alive |-> TRUE, due |-> t + period, period |-> period]

\* what a handler did: startModel ran, callModel ran (with the window end it
\* requested), a model result was applied or dropped
NoLog ==
  [from |-> "none", started |-> FALSE, requested |-> << >>, result |-> "none",
   stale |-> {}, accepted |-> FALSE, released |-> 0, triggerRelease |-> 0,
   cancelled |-> {}, cleared |-> FALSE, leaked |-> {}]

\* a handler starts: nothing raised, nothing done yet
Begin(p, handler) == [p EXCEPT !.raised = NoError, !.log = [NoLog EXCEPT !.from = handler]]

Failed(p) == p.raised # NoError

Raise(p, error) == [p EXCEPT !.raised = error]

\* bookkeeping: the calls in flight were issued before this reset, rewind or abort
Mark(p, what) ==
  [p EXCEPT !.calls = [i \in 1..Len(p.calls) |->
                         [p.calls[i] EXCEPT !.stale = @ \cup {what}]]]

(* --------------------------- Note & History --------------------------- *)
\* new Note(key, velocity, duration, time, actor, scheduleId, isRewind)
Note(key, duration, time, actor, isRewind) ==
  [key |-> key, duration |-> duration, time |-> time, actor |-> actor,
   isRewind |-> isRewind]

\* new History(bpm, name)
History(b, name, start) ==
  [noteHistory |-> << >>, bpm |-> b, name |-> name, start |-> start,
   lastSeedNoteTime |-> 0, parentHistory |-> 0, isNew |-> TRUE]

\* History.add(note): the note goes after the last note that is not later than it
HistoryAdd(p, h, id) ==
  LET q == p.histories[h].noteHistory
      notLater == {i \in 1..Len(q) : p.notes[q[i]].time <= p.notes[id].time}
      at == IF notLater = {} THEN 0
            ELSE CHOOSE i \in notLater : \A j \in notLater : j <= i
  IN [p EXCEPT !.histories[h].noteHistory =
        SubSeq(q, 1, at) \o << id >> \o SubSeq(q, at + 1, Len(q))]

\* History.copy()
HistoryCopy(p, h) ==
  [p EXCEPT !.histories = Append(@, [p.histories[h] EXCEPT !.parentHistory = h,
                                                           !.isNew = TRUE])]

\* History.getRecentHistory(notes, start): scans from the end and stops at the
\* first note earlier than start
getRecentHistory(p, q, start) ==
  LET early == {i \in 1..Len(q) : p.notes[q[i]].time < start}
      from == IF early = {} THEN 1
              ELSE 1 + CHOOSE i \in early : \A j \in early : j <= i
  IN SubSeq(q, from, Len(q))

\* History.removeHistory(notes, cutoff): the notes before the cutoff
removeHistory(p, q, cutoff) ==
  LET late == {i \in 1..Len(q) : p.notes[q[i]].time >= cutoff}
      upto == IF late = {} THEN Len(q)
              ELSE (CHOOSE i \in late : \A j \in late : i <= j) - 1
  IN SubSeq(q, 1, upto)


\* the Note object just constructed
Newest(p) == Len(p.notes)

New(p, note) == [p EXCEPT !.notes = Append(@, note)]

(* ------------------------- Active-Note Tracker ------------------------ *)
\* activeNotes.find(note => note.key === pianoKey), 0 when there is none
FindActive(p, pianoKey) ==
  LET hits == {i \in 1..Len(p.activeNotes) : p.notes[p.activeNotes[i]].key = pianoKey}
  IN IF hits = {} THEN 0 ELSE CHOOSE i \in hits : \A j \in hits : i <= j

\* a releaseNote that sends the release command whatever the note's duration
releaseNoteAlways(p, pianoKey, triggerTime) ==
  LET i == FindActive(p, pianoKey)
      id == p.activeNotes[i]
      finalDuration == triggerTime - p.notes[id].time
  IN IF i = 0 THEN p
     ELSE [p EXCEPT !.activeNotes = SeqRemoveAt(@, i), !.log.released = @ + 1,
                    !.notes[id].duration = finalDuration,
                    !.log.triggerRelease = @ + 1]

releaseNote(p, pianoKey, triggerTime) ==
  LET i == FindActive(p, pianoKey)
      id == p.activeNotes[i]
      finalDuration == triggerTime - p.notes[id].time
      p1 == [p EXCEPT !.activeNotes = SeqRemoveAt(@, i), !.log.released = @ + 1]
  IN IF i = 0 THEN p
     ELSE IF Abs(p.notes[id].duration - finalDuration) > 0
          THEN [p1 EXCEPT !.notes[id].duration = finalDuration,
                          !.log.triggerRelease = @ + 1]
          ELSE p1

RECURSIVE ReleaseEach(_, _)
ReleaseEach(p, snapshot) ==
  IF snapshot = << >> THEN p
  ELSE ReleaseEach(releaseNote(p, p.notes[Head(snapshot)].key, p.seconds), Tail(snapshot))

releaseAllNotes(p) == ReleaseEach(p, p.activeNotes)

\* a playNote that does not release the key first
playNoteNoRelease(p, id) ==
  LET p2 == [p EXCEPT !.activeNotes = Append(@, id)]
      p3 == HistoryAdd(p2, p2.currHistory, id)
      noteIndex == IndexOf(p3.noteQueue, id)
  IN IF p2.currHistory = 0 THEN Raise(p2, "playNote")
     ELSE IF noteIndex > 0
          THEN [p3 EXCEPT !.noteQueue = SeqRemoveAt(@, noteIndex)]
          ELSE p3

\* a playNote that pushes the note onto noteHistory instead of calling add
playNotePush(p, id) ==
  LET p1 == releaseNote(p, p.notes[id].key, p.notes[id].time)
      p2 == [p1 EXCEPT !.activeNotes = Append(@, id)]
      p3 == [p2 EXCEPT !.histories[p2.currHistory].noteHistory = Append(@, id)]
      noteIndex == IndexOf(p3.noteQueue, id)
  IN IF p2.currHistory = 0 THEN Raise(p2, "playNote")
     ELSE IF noteIndex > 0
          THEN [p3 EXCEPT !.noteQueue = SeqRemoveAt(@, noteIndex)]
          ELSE p3

playNote(p, id) ==
  LET p1 == releaseNote(p, p.notes[id].key, p.notes[id].time)
      p2 == [p1 EXCEPT !.activeNotes = Append(@, id)]
      p3 == HistoryAdd(p2, p2.currHistory, id)
      noteIndex == IndexOf(p3.noteQueue, id)
  IN IF p2.currHistory = 0 THEN Raise(p2, "playNote")
     ELSE IF noteIndex > 0
          THEN [p3 EXCEPT !.noteQueue = SeqRemoveAt(@, noteIndex)]
          ELSE p3

scheduleNote(p, id) ==
  [p EXCEPT !.timeline = @ \cup {id}, !.noteQueue = Append(@, id)]

RECURSIVE ScheduleEach(_, _)
ScheduleEach(p, ids) ==
  IF ids = << >> THEN p ELSE ScheduleEach(scheduleNote(p, Head(ids)), Tail(ids))

(* ----------------------- Continuation Scheduler ----------------------- *)
\* a callModel that gathers the pending schedule before the History
callModelQueuedFirst(p, scheduleImmediately) ==
  LET start == Max(p.callModelEnd - beatsToSeconds(p, historyWindowBeats),
                   -(getInterval(p) \div 2))
      history == getRecentHistory(p, p.histories[p.currHistory].noteHistory, start)
      queued == getRecentHistory(p, p.noteQueue, start)
      call == [initiatedTime |-> p.now, history |-> queued \o history,
               start |-> start, end |-> p.callModelEnd,
               scheduleImmediately |-> scheduleImmediately, stale |-> {}]
  IN IF p.currHistory = 0 THEN p
     ELSE [p EXCEPT !.calls = Append(@, call),
                    !.log.requested = Append(@, p.callModelEnd),
                    !.run = Append(@, p.callModelEnd)]

\* callModel up to its await: the request is sent; a rejected call (no current
\* History) sends nothing and its error stays in the promise
callModel(p, scheduleImmediately) ==
  LET start == Max(p.callModelEnd - beatsToSeconds(p, historyWindowBeats),
                   -(getInterval(p) \div 2))
      history == getRecentHistory(p, p.histories[p.currHistory].noteHistory, start)
      queued == getRecentHistory(p, p.noteQueue, start)
      call == [initiatedTime |-> p.now, history |-> history \o queued,
               start |-> start, end |-> p.callModelEnd,
               scheduleImmediately |-> scheduleImmediately, stale |-> {}]
  IN IF p.currHistory = 0 THEN p
     ELSE [p EXCEPT !.calls = Append(@, call),
                    !.log.requested = Append(@, p.callModelEnd),
                    !.run = Append(@, p.callModelEnd)]

RECURSIVE Generated(_, _, _)
Generated(p, generated, scheduleImmediately) ==
  IF generated = << >> THEN p
  ELSE LET gen == Head(generated)
           p1 == New(p, Note(gen.keyNum, gen.duration, gen.time, Model, FALSE))
           p2 == IF scheduleImmediately THEN scheduleNote(p1, Newest(p1))
                 ELSE [p1 EXCEPT !.noteBuffer = Append(@, Newest(p1))]
       IN Generated(p2, Tail(generated), scheduleImmediately)

\* a callModel whose result is applied whenever a model run is under way,
\* whichever run issued the call
callModelReturnAnyRun(p, i, generated) ==
  LET call == p.calls[i]
      p1 == [p EXCEPT !.calls = SeqRemoveAt(@, i), !.log.stale = call.stale]
      p2 == Generated(p1, generated, call.scheduleImmediately)
  IN IF p.modelStartTime # NULL
     THEN [p2 EXCEPT !.callModelEnd = @ + beatsToSeconds(p, bufferBeats),
                     !.log.result = "applied"]
     ELSE [p1 EXCEPT !.log.result = "dropped"]

\* callModel after its await: call i of the calls in flight has returned generated
callModelReturn(p, i, generated) ==
  LET call == p.calls[i]
      p1 == [p EXCEPT !.calls = SeqRemoveAt(@, i), !.log.stale = call.stale]
      p2 == Generated(p1, generated, call.scheduleImmediately)
  IN IF p.modelStartTime # NULL /\ call.initiatedTime >= p.modelStartTime
     THEN [p2 EXCEPT !.callModelEnd = @ + beatsToSeconds(p, bufferBeats),
                     !.log.result = "applied"]
     ELSE [p1 EXCEPT !.log.result = "dropped"]

\* the timers among ids that still run: a setInterval assigned to the field of
\* one of them leaves it running and held by nothing, and the log keeps it
StillRunning(p, ids) == {id \in ids : p[id].alive}

startModel(p) ==
  LET p1 == callModel([p EXCEPT !.modelStartTime = p.now, !.log.started = TRUE,
                                !.run = << >>], TRUE)
      p2 == [p1 EXCEPT !.callModelIntervalId = NoTimer,
                       !.checkActivityIntervalId = NoTimer]
  IN [p2 EXCEPT !.callModelIntervalId = Timer(p.now, beatsToSeconds(p, bufferBeats)),
                !.checkActivityIntervalId = Timer(p.now, checkActivityPeriod),
                !.log.leaked = @ \cup StillRunning(p2, {"callModelIntervalId",
                                                       "checkActivityIntervalId"})]

scheduleStartModel(p, lastNoteTime) ==
  LET end == roundToOffset(p, lastNoteTime)
  IN [p EXCEPT !.callModelEnd = end,
               !.startModelEvent = Max(0, end - beatsToSeconds(p, bufferBeats))]

\* a stopModel that leaves modelStartTime as it is
stopModelKeepsStart(p) ==
  [p EXCEPT !.timeline = @ \ {p.noteQueue[i] : i \in 1..Len(p.noteQueue)},
            !.noteQueue = << >>,
            !.noteBuffer = << >>,
            !.run = << >>,
            !.callModelIntervalId = NoTimer,
            !.checkActivityIntervalId = NoTimer]

\* a stopModel that empties the queue without clearing the notes' callbacks
stopModelLeavesCallbacks(p) ==
  [p EXCEPT !.noteQueue = << >>,
            !.noteBuffer = << >>,
            !.modelStartTime = NULL,
            !.run = << >>,
            !.callModelIntervalId = NoTimer,
            !.checkActivityIntervalId = NoTimer]

stopModel(p) ==
  [p EXCEPT !.timeline = @ \ {p.noteQueue[i] : i \in 1..Len(p.noteQueue)},
            !.log.cancelled = @ \cup {p.noteQueue[i] : i \in 1..Len(p.noteQueue)},
            !.noteQueue = << >>,
            !.noteBuffer = << >>,
            !.modelStartTime = NULL,
            !.run = << >>,
            !.callModelIntervalId = NoTimer,
            !.checkActivityIntervalId = NoTimer]

addToHistoryList(p, history) ==
  LET p1 == [p EXCEPT !.allHistories = Append(@, history)]
  IN IF history = 0 \/ ~p.histories[history].isNew THEN p
     ELSE IF p.histories[history].noteHistory = << >> THEN Raise(p1, "addToHistoryList")
          ELSE p1

resetAll(p) ==
  LET p1 == stopModel(releaseAllNotes(Mark(p, "resetAll")))
      p2 == [p1 EXCEPT !.timeline = {}, !.startModelEvent = NULL,
                       !.running = FALSE, !.seconds = 0]
      p3 == addToHistoryList(p2, p2.currHistory)
  IN IF Failed(p3) THEN p3
     ELSE [p3 EXCEPT !.currHistory = 0, !.activeNotes = << >>,
                     !.toneStarted = FALSE, !.listenerIntervalId = NoTimer]

checkActivity(p) ==
  IF p.now - p.lastActivity > activityTimeout THEN resetAll(p) ELSE p


(* ---------------------- Seed-Input State Machine ---------------------- *)
\* PianoAudio.startTone(): unless the tone is started already, Tone.start() is
\* called, and the transport starts when its promise resolves
startTone(p) ==
  IF p.toneStarted THEN p ELSE [p EXCEPT !.toneStarted = TRUE, !.startPending = TRUE]

\* PianoAudio.detectBpm(notes, min, max) answers a tempo in [min, max]
DetectedBPMs == {b \in {defaultBPM} : minBPM <= b /\ b <= maxBPM}

NewHistory(p, b, name) == [p EXCEPT !.histories = Append(@, History(b, name, p.now))]

seedInputListener(p) ==
  LET p1 == NewHistory([p EXCEPT !.bpm = defaultBPM], defaultBPM, "Player Prompt")
  IN [p1 EXCEPT !.currHistory = Len(p1.histories),
                !.awaitingInput = TRUE,
                !.listenerIntervalId = Timer(p.now, pollPeriod),
                !.log.leaked = @ \cup StillRunning(p1, {"listenerIntervalId"})]

\* seedInputAwaiter, LISTENING -> MODEL_PENDING: the tempo is detected, the seed
\* ends at its last note and the first model call is buffered
awaiterStart(p, detected) ==
  LET h == p.currHistory
      p1 == [p EXCEPT !.bpm = detected, !.histories[h].bpm = detected]
      last == p1.histories[h].noteHistory[Len(p1.histories[h].noteHistory)]
      p2 == [p1 EXCEPT !.histories[h].lastSeedNoteTime = p1.notes[last].time]
      p3 == [p2 EXCEPT !.callModelEnd = roundToOffset(p2, p2.histories[h].lastSeedNoteTime),
                       !.modelStartTime = p.now]
  IN IF h = 0 \/ p.histories[h].noteHistory = << >>
     THEN Raise(p, "seedInputAwaiter")
     ELSE callModel(p3, FALSE)

\* an abort that clears the buffers but leaves the model run marked as started
awaiterAbortKeepsRun(p) ==
  [stopModel(Mark(p, "abort")) EXCEPT !.modelStartTime = p.modelStartTime]

\* seedInputAwaiter, MODEL_PENDING -> LISTENING: new input has been received
awaiterAbort(p) == stopModel(Mark(p, "abort"))

\* a confirm that leaves the transport where it is
awaiterConfirmInPlace(p) ==
  LET p2 == ScheduleEach(p, p.noteBuffer)
      p3 == startModel([p2 EXCEPT !.noteBuffer = << >>])
  IN [p3 EXCEPT !.awaitingInput = FALSE, !.listenerIntervalId = NoTimer]

\* seedInputAwaiter, MODEL_PENDING -> MODEL_ACTIVE
awaiterConfirm(p) ==
  LET p1 == [p EXCEPT !.seconds = p.callModelEnd - beatsToSeconds(p, bufferBeats)]
      p2 == ScheduleEach(p1, p1.noteBuffer)
      p3 == startModel([p2 EXCEPT !.noteBuffer = << >>])
  IN [p3 EXCEPT !.awaitingInput = FALSE, !.listenerIntervalId = NoTimer]

\* an awaiter that never confirms the end of the phrase
seedInputAwaiterNoConfirm(p, detected) ==
  LET currTime == p.now
  IN IF p.modelStartTime = NULL
     THEN IF currTime - p.lastActivity >= inputWaitTime /\ p.activeNotes = << >>
          THEN awaiterStart(p, detected)
          ELSE p
     ELSE IF currTime - p.lastActivity < inputWaitTime
          THEN awaiterAbort(p)
          ELSE p

\* an awaiter that confirms after one inputWaitTime instead of three
seedInputAwaiterEager(p, detected) ==
  LET currTime == p.now
  IN IF p.modelStartTime = NULL
     THEN IF currTime - p.lastActivity >= inputWaitTime /\ p.activeNotes = << >>
          THEN awaiterStart(p, detected)
          ELSE p
     ELSE IF currTime - p.lastActivity < inputWaitTime
          THEN awaiterAbort(p)
          ELSE awaiterConfirm(p)

seedInputAwaiter(p, detected) ==
  LET currTime == p.now
  IN IF p.modelStartTime = NULL
     THEN IF currTime - p.lastActivity >= inputWaitTime /\ p.activeNotes = << >>
          THEN awaiterStart(p, detected)
          ELSE p
     ELSE IF currTime - p.lastActivity < inputWaitTime
          THEN awaiterAbort(p)
          ELSE IF currTime - p.lastActivity >= inputWaitTime * 3
               THEN awaiterConfirm(p)
               ELSE p

\* a keyPressed that starts the idle poll whether or not the tone was started
keyPressedAlwaysListens(p, keyNum) ==
  LET p1 == seedInputListener(IF p.toneStarted THEN p ELSE startTone(p))
      p2 == New(p1, Note(keyNum, HELD, p1.seconds, Player, FALSE))
      p3 == playNote(p2, Newest(p2))
  IN IF Failed(p3) THEN p3 ELSE [p3 EXCEPT !.lastActivity = p.now]

keyPressed(p, keyNum) ==
  LET p1 == IF p.toneStarted THEN p ELSE seedInputListener(startTone(p))
      p2 == New(p1, Note(keyNum, HELD, p1.seconds, Player, FALSE))
      p3 == playNote(p2, Newest(p2))
  IN IF Failed(p3) THEN p3 ELSE [p3 EXCEPT !.lastActivity = p.now]

(* ----------------------- Rewind/Branch Manager ------------------------ *)
\* a rewind that drops the queued notes instead of committing them
CommitQueuedNone(p, queuedNotes) == p

\* the queued notes up to callModelEnd are committed to the current History
RECURSIVE CommitQueued(_, _)
CommitQueued(p, queuedNotes) ==
  IF queuedNotes = << >> THEN p
  ELSE LET id == Head(queuedNotes)
           p1 == IF p.notes[id].time <= p.callModelEnd
                 THEN HistoryAdd(p, p.currHistory, id) ELSE p
       IN CommitQueued(p1, Tail(queuedNotes))

\* every replay note is constructed again, marked isRewind, and scheduled
RECURSIVE Reschedule(_, _)
Reschedule(p, ids) ==
  IF ids = << >> THEN p
  ELSE LET note == p.notes[Head(ids)]
           p1 == New(p, Note(note.key, note.duration, note.time, note.actor, TRUE))
       IN Reschedule(scheduleNote(p1, Newest(p1)), Tail(ids))

\* a refusal that does not look at awaitingInput
rewindRefusedIdleOnly(p) == ~p.toneStarted

\* rewind() returns false and does nothing
rewindRefused(p) == ~p.toneStarted \/ p.awaitingInput

replayTimesteps(p) == Ceil(ticksPerBeat * secondsToReplay * p.bpm, UnitsPerMinute)

replaySeconds(p) == beatsToSeconds(p, replayTimesteps(p)) \div ticksPerBeat

\* a rewind target that is not rounded to the tick grid
newTransportSecondsUnrounded(p) ==
  Max(p.seconds - secondsToRewind,
      p.histories[p.currHistory].lastSeedNoteTime - replaySeconds(p))

\* a rewind target without the clamp at the last seed note
newTransportSecondsUnclamped(p) == roundToOffset(p, p.seconds - secondsToRewind)

\* the transport is rewound, but no further back than the last seed note
newTransportSeconds(p) ==
  roundToOffset(p, Max(p.seconds - secondsToRewind,
                       p.histories[p.currHistory].lastSeedNoteTime - replaySeconds(p)))

\* a debounce that sets the new timeout without clearing the pending one
debounceStartModelNoClear(p) ==
  [p EXCEPT !.timeouts = @ \cup {p.now + startModelDelayMs},
            !.startModelScheduleId = Timer(p.now, startModelDelayMs)]

\* the pending timeout, if any, is cleared and startModel is set to run after
\* startModelDelayMs
debounceStartModel(p) ==
  LET held == p.startModelScheduleId
      cleared == IF held.alive THEN p.timeouts \ {held.due} ELSE p.timeouts
  IN [p EXCEPT !.timeouts = cleared \cup {p.now + startModelDelayMs},
               !.startModelScheduleId = Timer(p.now, startModelDelayMs),
               !.log.cleared = held.alive]

\* a rewind that moves the seed boundary of the copy to the new position
rewindMovingSeed(p) ==
  LET queuedNotes == p.noteQueue
      p1 == addToHistoryList(p, p.currHistory)
      p2 == [stopModel(Mark(p1, "rewind")) EXCEPT !.activeNotes = << >>]
      p3 == HistoryCopy(p2, p2.currHistory)
      p4 == [p3 EXCEPT !.currHistory = Len(p3.histories)]
      h == p4.currHistory
      p5 == [p4 EXCEPT !.seconds = newTransportSeconds(p4),
                       !.callModelEnd = newTransportSeconds(p4) + replaySeconds(p4),
                       !.histories[h].lastSeedNoteTime = newTransportSeconds(p4)]
      p6 == CommitQueued(p5, queuedNotes)
      replayNotes ==
        removeHistory(p6, getRecentHistory(p6, p6.histories[h].noteHistory, p6.seconds),
                      p6.callModelEnd)
      p7 == [p6 EXCEPT !.histories[h].noteHistory = removeHistory(p6, @, p6.seconds)]
      p8 == Reschedule(p7, replayNotes)
  IN IF rewindRefused(p) THEN p
     ELSE IF Failed(p1) THEN p1
          ELSE IF p.currHistory = 0 THEN Raise(p2, "rewind")
               ELSE [debounceStartModel(p8) EXCEPT !.log.accepted = TRUE]

\* a rewind that goes on with the archived History instead of a copy of it
rewindInPlace(p) ==
  LET queuedNotes == p.noteQueue
      p1 == addToHistoryList(p, p.currHistory)
      p4 == [stopModel(Mark(p1, "rewind")) EXCEPT !.activeNotes = << >>]
      h == p4.currHistory
      p5 == [p4 EXCEPT !.seconds = newTransportSeconds(p4),
                       !.callModelEnd = newTransportSeconds(p4) + replaySeconds(p4)]
      p6 == CommitQueued(p5, queuedNotes)
      replayNotes ==
        removeHistory(p6, getRecentHistory(p6, p6.histories[h].noteHistory, p6.seconds),
                      p6.callModelEnd)
      p7 == [p6 EXCEPT !.histories[h].noteHistory = removeHistory(p6, @, p6.seconds)]
      p8 == Reschedule(p7, replayNotes)
  IN IF rewindRefused(p) THEN p
     ELSE IF Failed(p1) THEN p1
          ELSE IF p.currHistory = 0 THEN Raise(p4, "rewind")
               ELSE [debounceStartModel(p8) EXCEPT !.log.accepted = TRUE]

rewind(p) ==
  LET queuedNotes == p.noteQueue
      p1 == addToHistoryList(p, p.currHistory)
      p2 == [stopModel(Mark(p1, "rewind")) EXCEPT !.activeNotes = << >>]
      p3 == HistoryCopy(p2, p2.currHistory)
      p4 == [p3 EXCEPT !.currHistory = Len(p3.histories)]
      h == p4.currHistory
      p5 == [p4 EXCEPT !.seconds = newTransportSeconds(p4),
                       !.callModelEnd = newTransportSeconds(p4) + replaySeconds(p4)]
      p6 == CommitQueued(p5, queuedNotes)
      replayNotes ==
        removeHistory(p6, getRecentHistory(p6, p6.histories[h].noteHistory, p6.seconds),
                      p6.callModelEnd)
      p7 == [p6 EXCEPT !.histories[h].noteHistory = removeHistory(p6, @, p6.seconds)]
      p8 == Reschedule(p7, replayNotes)
  IN IF rewindRefused(p) THEN p
     ELSE IF Failed(p1) THEN p1
          ELSE IF p.currHistory = 0 THEN Raise(p2, "rewind")
               ELSE [debounceStartModel(p8) EXCEPT !.log.accepted = TRUE]

(* --------------------- Examples and archived replay ------------------- *)
\* PianolaModel.queryStringToNotes(data, start, interval): the notes of an
\* example, placed after start
Examples ==
  { << [keyNum |-> 1, duration |-> 2, time |-> 0],
       [keyNum |-> 1, duration |-> 2, time |-> 10] >> }

queryStringToNotes(data, start) ==
  [i \in 1..Len(data) |-> [data[i] EXCEPT !.time = @ + start]]

RECURSIVE ScheduleDecoded(_, _)
ScheduleDecoded(p, decoded) ==
  IF decoded = << >> THEN p
  ELSE LET n == Head(decoded)
           p1 == New(p, Note(n.keyNum, n.duration, n.time, Bot, FALSE))
       IN ScheduleDecoded(scheduleNote(p1, Newest(p1)), Tail(decoded))

playExample(p, data, b, title) ==
  LET p1 == resetAll(p)
      p2 == startTone([p1 EXCEPT !.bpm = b])
      p3 == NewHistory([p2 EXCEPT !.lastActivity = p.now], b, title)
      p4 == [p3 EXCEPT !.currHistory = Len(p3.histories)]
      decoded == queryStringToNotes(data, p4.seconds)
      p5 == ScheduleDecoded(p4, decoded)
      p6 == [p5 EXCEPT !.histories[p5.currHistory].lastSeedNoteTime =
                          decoded[Len(decoded)].time]
  IN IF Failed(p1) THEN p1
     ELSE scheduleStartModel(p6, p6.histories[p6.currHistory].lastSeedNoteTime)

replayHistory(p, idx) ==
  LET p1 == resetAll(p)
      history == p1.allHistories[idx]
      old == p1.histories[history]
      p2 == NewHistory(p1, old.bpm, old.name)
      p3 == [p2 EXCEPT !.currHistory = Len(p2.histories)]
      lastTime == p3.notes[old.noteHistory[Len(old.noteHistory)]].time
      p4 == [p3 EXCEPT !.histories[p3.currHistory].lastSeedNoteTime = lastTime,
                       !.histories[p3.currHistory].parentHistory = history]
      p5 == startTone([p4 EXCEPT !.bpm = old.bpm])
      p6 == Reschedule(p5, old.noteHistory)
  IN IF Failed(p1) THEN p1
     ELSE IF old.noteHistory = << >> THEN Raise(p3, "replayHistory")
          ELSE scheduleStartModel(p6, lastTime)

\* keyDown(event): event.key is the space bar, the left arrow or a mapped key
keyDown(p, event) ==
  LET p1 == [p EXCEPT !.lastActivity = p.now]
  IN IF event.key = "Space" THEN resetAll(p1)
     ELSE IF event.key = "ArrowLeft" THEN rewind(p1)
          ELSE keyPressed(p1, event.keyNum)

\* keyUp(event) of a mapped key
keyUp(p, event) ==
  releaseNote([p EXCEPT !.lastActivity = p.now], event.keyNum, p.seconds)

(* ------------------------- timers and timeline ------------------------ *)
TimerDue(timer) == timer.alive /\ timer.due <= now

\* a timeline callback is invoked when the transport position passes its time,
\* which happens before the clock advances again
Passing(time) == running /\ seconds <= time /\ time < seconds + pollPeriod

NoteDue(id) == id \in timeline /\ Passing(notes[id].time)

StartModelDue == startModelEvent # NULL /\ Passing(startModelEvent)

\* the idle poll has the shortest period of all timers: in every instant it
\* runs after the other callbacks that are due
OthersDue ==
  \/ TimerDue(callModelIntervalId)
  \/ TimerDue(checkActivityIntervalId)
  \/ \E due \in timeouts : due <= now
  \/ StartModelDue
  \/ \E id \in timeline : NoteDue(id)

NothingDue == ~TimerDue(listenerIntervalId) /\ ~OthersDue

\* the bounds of the exploration
Bounded(p) ==
  /\ Len(p.notes) <= MaxNotes
  /\ Len(p.histories) <= MaxHistories
  /\ Len(p.calls) <= MaxCalls
  /\ p.inputs <= MaxInputs

\* the state q the handler ends in is within the bounds and becomes the next state
Do(p) == \E q \in {p} : Bounded(q) /\ Commit(q)

Input(handler) == [Begin(This, handler) EXCEPT !.inputs = @ + 1]

\* generateNotes answers one note at the end of the window asked for
GenKeys == {1}
GenDurations == {2}
GeneratedNotes(call) ==
  { << [keyNum |-> k, duration |-> d, time |-> call.end] >> :
       k \in GenKeys, d \in GenDurations }

(* ------------------------------- actions ------------------------------ *)
InitPiano ==
  /\ now = 0
  /\ lastActivity = 0
  /\ modelStartTime = NULL
  /\ callModelEnd = 0
  /\ bpm = defaultBPM
  /\ toneStarted = FALSE
  /\ awaitingInput = FALSE
  /\ notes = << >>
  /\ histories = << >>
  /\ currHistory = 0
  /\ allHistories = << >>
  /\ activeNotes = << >>
  /\ noteQueue = << >>
  /\ noteBuffer = << >>
  /\ listenerIntervalId = NoTimer
  /\ callModelIntervalId = NoTimer
  /\ checkActivityIntervalId = NoTimer
  /\ startModelScheduleId = NoTimer
  /\ timeouts = {}
  /\ running = FALSE
  /\ startPending = FALSE
  /\ seconds = 0
  /\ timeline = {}
  /\ startModelEvent = NULL
  /\ calls = << >>
  /\ raised = NoError
  /\ log = NoLog
  /\ run = << >>
  /\ inputs = 0

NoProbe == [bpm |-> defaultBPM, time |-> 0, done |-> FALSE, result |-> 0]

Init == InitPiano /\ probe = NoProbe

\* nothing is scheduled and nothing is awaited: the passing of time changes
\* nothing but the clock
Quiescent ==
  /\ ~listenerIntervalId.alive /\ ~callModelIntervalId.alive
  /\ ~checkActivityIntervalId.alive /\ timeouts = {}
  /\ ~running /\ ~startPending /\ calls = << >>

\* the wall clock and the transport advance by one poll period
Tick ==
  /\ now + pollPeriod <= MaxTime
  /\ NothingDue
  /\ ~Quiescent
  /\ Commit([Begin(This, "tick") EXCEPT
       !.now = @ + pollPeriod,
       !.seconds = IF running THEN @ + pollPeriod ELSE @,
       !.running = running \/ startPending,
       !.startPending = FALSE])

KeyDownNote ==
  /\ inputs < MaxInputs
  /\ \E k \in Keys : Do(keyDown(Input("keyDown"), [key |-> "Note", keyNum |-> k]))

KeyDownSpace ==
  /\ inputs < MaxInputs
  /\ Do(keyDown(Input("resetAll"), [key |-> "Space", keyNum |-> 0]))

KeyDownArrowLeft ==
  /\ inputs < MaxInputs
  /\ Do(keyDown(Input("rewind"), [key |-> "ArrowLeft", keyNum |-> 0]))

\* the key that goes up is one that sounds
KeyUp ==
  /\ inputs < MaxInputs
  /\ \E k \in Keys :
       /\ FindActive(This, k) # 0
       /\ Do(keyUp(Input("keyUp"), [key |-> "Note", keyNum |-> k]))

PlayExample ==
  /\ inputs < MaxInputs
  /\ \E data \in Examples :
       Do(playExample(Input("playExample"), data, defaultBPM, "Example"))

\* a click on an archived History; taken up by specifications that replay
ReplayHistory ==
  /\ inputs < MaxInputs
  /\ \E idx \in 1..Len(allHistories) : Do(replayHistory(Input("replayHistory"), idx))

SeedInputAwaiter ==
  /\ TimerDue(listenerIntervalId)
  /\ ~OthersDue
  /\ \E detected \in DetectedBPMs :
       LET p == [Begin(This, "seedInputAwaiter") EXCEPT
                   !.listenerIntervalId.due = @ + listenerIntervalId.period]
       IN Do(seedInputAwaiter(p, detected))

CallModelInterval ==
  /\ TimerDue(callModelIntervalId)
  /\ LET p == [Begin(This, "callModel") EXCEPT
                 !.callModelIntervalId.due = @ + callModelIntervalId.period]
     IN Do(callModel(p, TRUE))

\* the inactivity check, due every checkActivityPeriod, later than MaxTime here
CheckActivityInterval ==
  /\ TimerDue(checkActivityIntervalId)
  /\ LET p == [Begin(This, "checkActivity") EXCEPT
                 !.checkActivityIntervalId.due = @ + checkActivityIntervalId.period]
     IN Do(checkActivity(p))

StartModelTimeout ==
  \E due \in timeouts :
    /\ due <= now
    /\ LET held == startModelScheduleId
           p == [Begin(This, "startModelTimeout") EXCEPT
                   !.timeouts = @ \ {due},
                   !.startModelScheduleId =
                      IF held.alive /\ held.due = due THEN NoTimer ELSE held]
       IN Do(startModel(p))

StartModelEvent ==
  /\ StartModelDue
  /\ Do(startModel([Begin(This, "startModelEvent") EXCEPT !.startModelEvent = NULL]))

PlayNoteEvent ==
  \E id \in timeline :
    /\ NoteDue(id)
    /\ Do(playNote([Begin(This, "playNote") EXCEPT !.timeline = @ \ {id}], id))

CallModelReturn ==
  \E i \in 1..Len(calls) : \E generated \in GeneratedNotes(calls[i]) :
    Do(callModelReturn(Begin(This, "callModelReturn"), i, generated))

\* the engine driven by the keyboard and the example button
Next ==
  \/ Tick
  \/ KeyDownNote
  \/ KeyDownSpace
  \/ KeyDownArrowLeft
  \/ KeyUp
  \/ PlayExample
  \/ SeedInputAwaiter
  \/ CallModelInterval
  \/ StartModelTimeout
  \/ StartModelEvent
  \/ PlayNoteEvent
  \/ CallModelReturn

Spec == Init /\ [][Next]_vars

\* the engine driven also by clicks on the archived Histories
NextReplay ==
  \/ Next
  \/ ReplayHistory

SpecReplay == Init /\ [][NextReplay]_vars

\* the engine driven by the keyboard alone, up to the start of the periodic
\* scheduler: the idle poll is the only timer due before MaxTime
NextListen ==
  \/ Tick
  \/ KeyDownNote
  \/ KeyDownSpace
  \/ KeyUp
  \/ SeedInputAwaiter
  \/ CallModelReturn

\* the clock goes on and the browser runs the idle poll when it is due; the
\* model need not answer and the user need not do anything
SpecListen ==
  Init /\ [][NextListen]_vars /\ WF_vars(Tick) /\ WF_vars(SeedInputAwaiter)

(* --------------------- roundToOffset on its own ----------------------- *)
\* largest |time| roundToOffset is applied to
MaxRoundTime == 12

\* the tempos whose tick interval is a whole even number of units
RoundBPMs ==
  {b \in 1..UnitsPerMinute :
      UnitsPerMinute % b = 0 /\ (UnitsPerMinute \div b) % (2 * ticksPerBeat) = 0}

InitRound ==
  /\ InitPiano
  /\ probe \in [bpm : RoundBPMs, time : (-MaxRoundTime)..MaxRoundTime,
                done : {FALSE}, result : {0}]

ApplyRound ==
  /\ ~probe.done
  /\ probe' = [probe EXCEPT !.done = TRUE, !.result = roundToOffset(probe, probe.time)]
  /\ UNCHANGED << now, lastActivity, modelStartTime, callModelEnd, bpm, toneStarted,
                  awaitingInput, notes, histories, currHistory, allHistories,
                  activeNotes, noteQueue, noteBuffer, listenerIntervalId,
                  callModelIntervalId, checkActivityIntervalId, startModelScheduleId,
                  timeouts, running, startPending, seconds, timeline, startModelEvent, calls,
                  raised, log, run, inputs >>

SpecRound == InitRound /\ [][ApplyRound]_vars

(* -------------------- getRecentHistory on its own --------------------- *)
\* longest note sequence and latest position getRecentHistory is applied to
MaxRecentLen == 3
MaxRecentTime == 3

\* Tone.Time(t).toTicks(): 192 ticks to the quarter note at Tone's 120 bpm, so
\* 144 ticks to the unit of time
TicksPerUnit == 144
toTicks(t) == t * TicksPerUnit

\* Piano.getRecentHistory(history, start): scans from the end, pushes each
\* entry not earlier than start and stops at the first earlier one
RECURSIVE RecentScan(_, _, _, _)
RecentScan(history, start, i, recentHistory) ==
  IF i >= 1 /\ toTicks(history[i].position) >= toTicks(start)
  THEN RecentScan(history, start, i - 1, Append(recentHistory, history[i]))
  ELSE recentHistory

PianoGetRecentHistory(history, start) == RecentScan(history, start, Len(history), << >>)

\* the note sequences sorted by position; every note has its own identity
SortedHistories ==
  UNION {{h \in [1..n -> [position : 0..MaxRecentTime, id : 1..MaxRecentLen]] :
            /\ \A i \in 1..n : h[i].id = i
            /\ \A i \in 1..(n - 1) : h[i].position <= h[i + 1].position} :
         n \in 0..MaxRecentLen}

InitRecent ==
  /\ InitPiano
  /\ probe \in [history : SortedHistories, start : 0..(MaxRecentTime + 1),
                 done : {FALSE}, result : {<< >>}]

ApplyRecent ==
  /\ ~probe.done
  /\ probe' = [probe EXCEPT !.done = TRUE,
                            !.result = PianoGetRecentHistory(probe.history, probe.start)]
  /\ UNCHANGED << now, lastActivity, modelStartTime, callModelEnd, bpm, toneStarted,
                  awaitingInput, notes, histories, currHistory, allHistories,
                  activeNotes, noteQueue, noteBuffer, listenerIntervalId,
                  callModelIntervalId, checkActivityIntervalId, startModelScheduleId,
                  timeouts, running, startPending, seconds, timeline, startModelEvent, calls,
                  raised, log, run, inputs >>

SpecRecent == InitRecent /\ [][ApplyRecent]_vars

(* ----------------------- releaseNote on its own ----------------------- *)
\* latest start and longest duration of the note releaseNote is applied to,
\* and the longest time from its start to the release
MaxReleaseStart == 3
MaxReleaseDuration == 4
MaxReleaseAfter == 5

\* one note of the current History is active; it is released at probe.time,
\* not earlier than it started
InitRelease ==
  /\ \E t0 \in 0..MaxReleaseStart, d \in {HELD} \cup 0..MaxReleaseDuration,
        after \in 0..MaxReleaseAfter :
       /\ notes = << Note(1, d, t0, IF d = HELD THEN Player ELSE Model, FALSE) >>
       /\ probe = [time |-> t0 + after, duration |-> d]
       /\ seconds = t0 + after
       /\ now = t0 + after
  /\ lastActivity = 0
  /\ modelStartTime = NULL
  /\ callModelEnd = 0
  /\ bpm = defaultBPM
  /\ toneStarted = TRUE
  /\ awaitingInput = FALSE
  /\ histories = << [History(defaultBPM, "Player Prompt", 0) EXCEPT
                        !.noteHistory = << 1 >>] >>
  /\ currHistory = 1
  /\ allHistories = << >>
  /\ activeNotes = << 1 >>
  /\ noteQueue = << >>
  /\ noteBuffer = << >>
  /\ listenerIntervalId = NoTimer
  /\ callModelIntervalId = NoTimer
  /\ checkActivityIntervalId = NoTimer
  /\ startModelScheduleId = NoTimer
  /\ timeouts = {}
  /\ running = TRUE
  /\ startPending = FALSE
  /\ timeline = {}
  /\ startModelEvent = NULL
  /\ calls = << >>
  /\ raised = NoError
  /\ log = NoLog
  /\ run = << >>
  /\ inputs = 0

ApplyRelease ==
  /\ log.from = "none"
  /\ Commit(releaseNote(Begin(This, "releaseNote"), 1, probe.time))

SpecRelease == InitRelease /\ [][ApplyRelease]_vars

(* ------------------------ callModel on its own ------------------------ *)
\* number of notes in the current History and the pending schedule together,
\* and the latest time of a note, when callModel is applied
MaxCallNotes == 3
MaxCallTime == 4

\* the window ends: the end of the first tick, and ends so late that the
\* window starts among the notes
CallEnds ==
  LET window == beatsToSeconds([bpm |-> defaultBPM], historyWindowBeats)
      first == roundToOffset([bpm |-> defaultBPM], 0)
  IN {first} \cup {first + window + t : t \in {u \in 0..MaxCallTime : u % 2 = 0}}

\* the times of the notes, in the order they were played and scheduled
CallTimes ==
  UNION {{q \in [1..n -> 0..MaxCallTime] : \A i \in 1..(n - 1) : q[i] <= q[i + 1]} :
         n \in 0..MaxCallNotes}

\* the scheduler runs: the earlier notes are in the current History, the later
\* ones are scheduled
InitCall ==
  /\ \E times \in CallTimes, played \in 0..MaxCallNotes, end \in CallEnds :
       /\ played <= Len(times)
       /\ notes = [i \in 1..Len(times) |->
                     Note(1, 2, times[i], IF i <= played THEN Player ELSE Model, FALSE)]
       /\ histories = << [History(defaultBPM, "Player Prompt", 0) EXCEPT
                             !.noteHistory = [i \in 1..played |-> i]] >>
       /\ noteQueue = [i \in 1..(Len(times) - played) |-> played + i]
       /\ timeline = (played + 1)..Len(times)
       /\ callModelEnd = end
  /\ now = 0
  /\ lastActivity = 0
  /\ modelStartTime = 0
  /\ bpm = defaultBPM
  /\ toneStarted = TRUE
  /\ awaitingInput = FALSE
  /\ currHistory = 1
  /\ allHistories = << >>
  /\ activeNotes = << >>
  /\ noteBuffer = << >>
  /\ listenerIntervalId = NoTimer
  /\ callModelIntervalId = Timer(0, beatsToSeconds([bpm |-> defaultBPM], bufferBeats))
  /\ checkActivityIntervalId = Timer(0, checkActivityPeriod)
  /\ startModelScheduleId = NoTimer
  /\ timeouts = {}
  /\ running = TRUE
  /\ startPending = FALSE
  /\ seconds = 0
  /\ startModelEvent = NULL
  /\ calls = << >>
  /\ raised = NoError
  /\ log = NoLog
  /\ run = << >>
  /\ inputs = 0
  /\ probe = NoProbe

ApplyCallModel ==
  /\ log.from = "none"
  /\ \E scheduleImmediately \in BOOLEAN :
       Commit(callModel(Begin(This, "callModel"), scheduleImmediately))

SpecCall == InitCall /\ [][ApplyCallModel]_vars

(* ------------------------------- phases ------------------------------- *)
\* the state of the seed-input state machine, read off the engine's fields
Phase ==
  IF ~toneStarted THEN "IDLE"
  ELSE IF listenerIntervalId.alive
       THEN IF modelStartTime = NULL THEN "LISTENING" ELSE "MODEL_PENDING"
       ELSE IF callModelIntervalId.alive THEN "MODEL_ACTIVE" ELSE "PLAYBACK"

bufferDuration == beatsToSeconds(This, bufferBeats)

\* the last handler was the arrival of a model result issued before `what`
Late(what) == log.from = "callModelReturn" /\ what \in log.stale

\* the arrival of a late model result changes nothing of the schedule
LateChangesNothing(what) ==
  (log'.from = "callModelReturn" /\ what \in log'.stale)
    => /\ noteQueue' = noteQueue
       /\ noteBuffer' = noteBuffer
       /\ histories' = histories
       /\ notes' = notes
       /\ callModelEnd' = callModelEnd

(* ------------------------------- claims ------------------------------- *)
\* C1: the result of a model call issued before a rewind, arriving after it
\* (before or after the debounced startModel), adds nothing to noteQueue,
\* noteBuffer or the current History and leaves callModelEnd unchanged.
C1_LateAfterRewind == [][LateChangesNothing("rewind")]_vars

\* the late result arrived after the debounced startModel had run
C1_Witness == Late("rewind") /\ modelStartTime # NULL /\ ~startModelScheduleId.alive

\* C2: the result of a model call issued before resetAll(), arriving after it,
\* is dropped, also when a new phrase is in MODEL_PENDING or MODEL_ACTIVE.
C2_LateAfterReset == [][LateChangesNothing("resetAll")]_vars

C2_Witness ==
  Late("resetAll") /\ modelStartTime # NULL /\ Phase \in {"MODEL_PENDING", "MODEL_ACTIVE"}

\* C3: in one uninterrupted run of the scheduler the k-th invocation requests
\* the window end E0 + k * bufferDuration: no window end is requested twice.
C3_WindowsAdvance ==
  \A k \in 1..Len(run) : run[k] = run[1] + (k - 1) * bufferDuration

\* C4: t < roundToOffset(t) <= t + tickInterval, and roundToOffset(t) lies half
\* a tick after a whole multiple of the tick interval.
C4_RoundToOffset ==
  probe.done =>
    LET interval == getInterval(probe)
    IN /\ probe.time < probe.result
       /\ probe.result <= probe.time + interval
       /\ (probe.result - interval \div 2) % interval = 0

\* C5: an accepted rewind never puts the timeline position earlier than
\* lastSeedNoteTime - replayBuffer of the current History.
C5_RewindClamp ==
  (log.from = "rewind" /\ log.accepted) =>
    seconds >= histories[currHistory].lastSeedNoteTime - replaySeconds(This)

\* the rewind amount reached further back than the clamp of a History whose
\* seed ends after the start of the timeline
C5_Witness ==
  /\ log.from = "rewind" /\ log.accepted
  /\ histories[currHistory].lastSeedNoteTime > 0
  /\ seconds = roundToOffset(This, histories[currHistory].lastSeedNoteTime
                                     - replaySeconds(This))

\* C6: resetAll() and rewind() never raise an error.
C6_NeverRaise == log.from \in {"resetAll", "rewind"} => raised = NoError

\* C7: LISTENING is left for MODEL_PENDING only by an idle poll that finds
\* inputWaitTime passed since the last activity and no active note, and in
\* MODEL_PENDING no generated note is in the pending schedule.
C7_PendingEntry ==
  [][/\ (Phase = "LISTENING" /\ Phase' = "MODEL_PENDING")
          => /\ log'.from = "seedInputAwaiter"
             /\ now - lastActivity >= inputWaitTime
             /\ activeNotes = << >>
             /\ Len(calls') = Len(calls) + 1
             /\ ~calls'[Len(calls')].scheduleImmediately
     /\ Phase' = "MODEL_PENDING" => noteQueue' = << >>]_vars

\* C8: MODEL_ACTIVE is entered from the seed state machine only out of
\* MODEL_PENDING, by a poll that finds 3 * inputWaitTime passed since the last
\* activity, and the idle poll is stopped there.
C8_ActiveEntry ==
  [][(Phase \in {"LISTENING", "MODEL_PENDING"} /\ Phase' = "MODEL_ACTIVE")
        => /\ Phase = "MODEL_PENDING"
           /\ log'.from = "seedInputAwaiter"
           /\ now - lastActivity >= 3 * inputWaitTime
           /\ ~listenerIntervalId'.alive]_vars

C8_Witness == log.from = "seedInputAwaiter" /\ log.started /\ Phase = "MODEL_ACTIVE"

\* C9: at MODEL_PENDING -> MODEL_ACTIVE the position becomes callModelEnd -
\* bufferDuration, the buffered notes go to the pending schedule at their
\* times, the buffer is empty and the periodic scheduler runs.
C9_Confirm ==
  [][(log'.from = "seedInputAwaiter" /\ log'.started)
        => /\ seconds' = callModelEnd - bufferDuration
           /\ noteQueue' = noteQueue \o noteBuffer
           /\ noteBuffer' = << >>
           /\ \A i \in 1..Len(noteBuffer) :
                /\ noteBuffer[i] \in timeline'
                /\ notes'[noteBuffer[i]] = notes[noteBuffer[i]]
           /\ callModelIntervalId'.alive
           /\ callModelIntervalId'.period = bufferDuration]_vars

\* the transition moved a buffered note into the pending schedule
C9_Witness ==
  log.from = "seedInputAwaiter" /\ log.started /\ noteQueue # << >> /\ noteBuffer = << >>

\* C10: new input seen in MODEL_PENDING brings the engine back to LISTENING
\* with empty buffer and schedule, and the result of a call issued before the
\* abort never enters them, also after MODEL_PENDING was entered again.
C10_Abort ==
  [][/\ (/\ Phase = "MODEL_PENDING" /\ log'.from = "seedInputAwaiter"
         /\ now' - lastActivity < inputWaitTime)
          => (Phase' = "LISTENING" /\ noteBuffer' = << >> /\ noteQueue' = << >>)
     /\ LateChangesNothing("abort")]_vars

\* the result of the aborted call arrived in the next MODEL_PENDING
C10_Witness == Late("abort") /\ Phase = "MODEL_PENDING"

\* C11: after resetAll() every timer of the engine is stopped, so that neither
\* callModel nor startModel runs before a new phrase is started; also when the
\* reset comes within the debounce delay of a rewind.
C11_TimersStopped ==
  (log.from = "resetAll" /\ raised = NoError)
    => /\ ~listenerIntervalId.alive
       /\ ~callModelIntervalId.alive
       /\ ~checkActivityIntervalId.alive
       /\ ~startModelScheduleId.alive
       /\ startModelEvent = NULL

\* C12: the active-note set never holds two notes of one key.
C12_OnePerKey ==
  \A i, j \in 1..Len(activeNotes) :
    notes[activeNotes[i]].key = notes[activeNotes[j]].key => i = j

\* a note was played on a key that was active, and the earlier note was released
C12_Witness ==
  /\ log.from \in {"keyDown", "playNote"}
  /\ log.released = 1
  /\ Len(activeNotes) = 1

\* C13: the notes of the pending schedule are exactly the notes with a live
\* timeline callback, and a note whose callback was cancelled is never played:
\* a callback is only ever registered for a Note just constructed or taken out
\* of the buffer.
C13_Handles ==
  [][/\ {noteQueue'[i] : i \in 1..Len(noteQueue')} = timeline'
     /\ \A i, j \in 1..Len(noteQueue') : noteQueue'[i] = noteQueue'[j] => i = j
     /\ \A id \in timeline' \ timeline :
          id > Len(notes) \/ \E i \in 1..Len(noteBuffer) : noteBuffer[i] = id]_vars

\* stopModel cancelled the callback of a queued note
C13_Witness == log.cancelled # {} /\ log.cancelled \cap timeline = {}

\* C14: the archive allHistories only grows, the History at an index stays
\* the same object, and no History object is at two indices.
C14_ArchiveAppendOnly ==
  [][/\ Len(allHistories') >= Len(allHistories)
     /\ SubSeq(allHistories', 1, Len(allHistories)) = allHistories
     /\ \A i, j \in 1..Len(allHistories') :
          allHistories'[i] = allHistories'[j] => i = j]_vars

\* C15: for a sorted note sequence getRecentHistory returns the maximal suffix
\* of notes not earlier than start, in the order of the input, and the input
\* is as it was.
C15_RecentSuffix ==
  probe.done =>
    LET history == probe.history
        early == {i \in 1..Len(history) : history[i].position < probe.start}
        from == IF early = {} THEN 1
                ELSE 1 + CHOOSE i \in early : \A j \in early : j <= i
    IN probe.result = SubSeq(history, from, Len(history))

\* C16: releaseNote at the natural end t0 + d of an active note sends no
\* release command and leaves the duration d; at any other time, and for a
\* held note, it sends one release command and records the duration
\* release time - t0; the key leaves the active set in both cases.
C16_Release ==
  log.from = "releaseNote" =>
    /\ activeNotes = << >>
    /\ IF probe.duration # HELD /\ probe.time = notes[1].time + probe.duration
       THEN log.triggerRelease = 0 /\ notes[1].duration = probe.duration
       ELSE log.triggerRelease = 1 /\ notes[1].duration = probe.time - notes[1].time

\* a note released at its natural end
C16_Witness ==
  /\ log.from = "releaseNote" /\ log.released = 1 /\ log.triggerRelease = 0
  /\ probe.duration > 0

\* the ids in a sequence of notes
Ids(q) == {q[i] : i \in 1..Len(q)}

\* C17: after an accepted rewind the current History holds exactly the notes
\* from before the rewind (its own and the queued ones committed) that are
\* earlier than the new position, and the pending schedule holds exactly one
\* isRewind copy, at the same time, of each of those notes from the new
\* position up to callModelEnd.
C17_RewindSplit ==
  [][(log'.from = "rewind" /\ log'.accepted) =>
       LET before == Ids(histories[currHistory].noteHistory)
                       \cup {id \in Ids(noteQueue) : notes[id].time <= callModelEnd'}
           kept == {id \in before : notes[id].time < seconds'}
           window == {id \in before :
                        seconds' <= notes[id].time /\ notes[id].time < callModelEnd'}
           copy(id) == [notes[id] EXCEPT !.isRewind = TRUE]
           now_ == histories'[currHistory'].noteHistory
       IN /\ Ids(now_) = kept
          /\ Len(now_) = Cardinality(kept)
          /\ Len(noteQueue') = Cardinality(window)
          /\ \A id \in window :
               Cardinality({j \in 1..Len(noteQueue') : notes'[noteQueue'[j]] = copy(id)})
                 = Cardinality({other \in window : copy(other) = copy(id)})
          /\ Ids(noteQueue') \cap Ids(now_) = {}]_vars

\* the rewind committed a queued note and scheduled its copy
C17_Witness ==
  /\ log.from = "rewind" /\ log.accepted
  /\ \E id \in log.cancelled :
       /\ seconds <= notes[id].time /\ notes[id].time < callModelEnd
       /\ \E j \in 1..Len(noteQueue) :
            notes[noteQueue[j]] = [notes[id] EXCEPT !.isRewind = TRUE]
  /\ histories[currHistory].noteHistory # << >>

\* C18: rewind() archives the current History and leaves it as it was, notes
\* included, while the branch copy is changed; the new current History is
\* another object whose parentHistory is the archived one.
C18_ArchivedUntouched ==
  [][(log'.from = "rewind" /\ log'.accepted) =>
       /\ allHistories'[Len(allHistories')] = currHistory
       /\ histories'[currHistory] = histories[currHistory]
       /\ \A id \in Ids(histories[currHistory].noteHistory) : notes'[id] = notes[id]
       /\ currHistory' # currHistory
       /\ histories'[currHistory'].parentHistory = currHistory]_vars

\* the branch copy no longer holds the notes of the archived original
C18_Witness ==
  /\ log.from = "rewind" /\ log.accepted
  /\ histories[currHistory].parentHistory # 0
  /\ histories[currHistory].noteHistory
       # histories[histories[currHistory].parentHistory].noteHistory

C20_Replay ==
  [][log'.from = "replayHistory" =>
       \E idx \in 1..Len(allHistories') :
         LET archived == allHistories'[idx]
             old == histories'[archived].noteHistory
             lastTime == notes'[old[Len(old)]].time
             new == histories'[currHistory']
         IN /\ raised' = NoError
            /\ modelStartTime' = NULL /\ activeNotes' = << >> /\ noteBuffer' = << >>
            /\ ~callModelIntervalId'.alive /\ ~listenerIntervalId'.alive
            /\ old # << >>
            /\ currHistory' > Len(histories)
            /\ new.noteHistory = << >>
            /\ new.bpm = histories'[archived].bpm
            /\ new.name = histories'[archived].name
            /\ new.lastSeedNoteTime = lastTime
            /\ Len(noteQueue') = Len(old)
            /\ \A i \in 1..Len(old) :
                 /\ notes'[noteQueue'[i]] = [notes'[old[i]] EXCEPT !.isRewind = TRUE]
                 /\ noteQueue'[i] \in timeline'
            /\ archived <= Len(histories) => histories'[archived] = histories[archived]
            /\ \A i \in 1..Len(old) : old[i] <= Len(notes) => notes'[old[i]] = notes[old[i]]
            /\ callModelEnd' = roundToOffset([bpm |-> bpm'], lastTime)
            /\ startModelEvent' = Max(0, callModelEnd' - beatsToSeconds([bpm |-> bpm'], bufferBeats))]_vars

\* C21: rewind() force-releases the active notes: after an accepted rewind
\* the active set is empty, every note that was active has a final duration,
\* and no note kept in the current History or scheduled again in the replay
\* window still has the HELD duration.
C21_ForceRelease ==
  [][(log'.from = "rewind" /\ log'.accepted) =>
       /\ activeNotes' = << >>
       /\ \A id \in Ids(activeNotes) : notes'[id].duration # HELD
       /\ \A id \in Ids(histories'[currHistory'].noteHistory) \cup Ids(noteQueue') :
            notes'[id].duration # HELD]_vars

\* C22: a History is archived only if it holds a note: no History of
\* allHistories has an empty note sequence.
C22_NoEmptyArchived ==
  \A i \in 1..Len(allHistories) : histories[allHistories[i]].noteHistory # << >>

\* C23: every scheduler invocation asks the model for the window from
\* max(callModelEnd - beatsToSeconds(historyWindowBeats), -tickInterval/2) to
\* callModelEnd, with the notes of the current History not earlier than the
\* start followed by the notes of the pending schedule not earlier than the
\* start; the History and the pending schedule are as they were.
C23_Window ==
  [][log'.requested # << >> =>
       LET call == calls'[Len(calls')]
           p == [bpm |-> bpm']
           start == Max(callModelEnd' - beatsToSeconds(p, historyWindowBeats),
                        -(getInterval(p) \div 2))
           recent(id) == notes'[id].time >= start
       IN /\ call.start = start
          /\ call.end = callModelEnd'
          /\ call.history = SelectSeq(histories'[currHistory'].noteHistory, recent)
                              \o SelectSeq(noteQueue', recent)
          /\ log'.from = "callModel"
               => (histories' = histories /\ noteQueue' = noteQueue /\ notes' = notes
                   /\ callModelEnd' = callModelEnd)]_vars

\* the window started among the notes: the call left out a note of the History
\* and took one of the History and one of the pending schedule
C23_Witness ==
  /\ log.from = "callModel" /\ calls # << >>
  /\ calls[1].start > 0
  /\ Len(calls[1].history) = 2
  /\ Len(histories[currHistory].noteHistory) = 2
  /\ Len(noteQueue) = 1

\* C24: after an accepted rewind callModelEnd is the new position plus the
\* replay buffer, which is secondsToReplay rounded up to whole ticks at the
\* current tempo; callModelEnd then stays as it is while the restart is
\* pending, and the first model call of the restart requests this window end.
C24_ReplayWindow ==
  [][/\ (log'.from = "rewind" /\ log'.accepted)
          => LET p == [bpm |-> bpm']
                 replayBuffer == replaySeconds(p)
             IN /\ callModelEnd' = seconds' + replayBuffer
                /\ replayBuffer % getInterval(p) = 0
                /\ replayBuffer >= secondsToReplay
                /\ replayBuffer - getInterval(p) < secondsToReplay
     /\ (timeouts # {} /\ ~(log'.from = "rewind" /\ log'.accepted))
          => callModelEnd' = callModelEnd
     /\ log'.from = "startModelTimeout"
          => (log'.started /\ log'.requested = << callModelEnd >>)]_vars

\* C25: a rewind requested in IDLE, LISTENING or MODEL_PENDING is refused and
\* leaves the current History, the archive, the active set, the pending
\* schedule, the timeline position, callModelEnd and all timers as they were.
C25_RewindRefused ==
  [][(log'.from = "rewind" /\ Phase \in {"IDLE", "LISTENING", "MODEL_PENDING"}) =>
       /\ ~log'.accepted
       /\ raised' = NoError
       /\ currHistory' = currHistory
       /\ histories' = histories
       /\ notes' = notes
       /\ allHistories' = allHistories
       /\ activeNotes' = activeNotes
       /\ noteQueue' = noteQueue
       /\ noteBuffer' = noteBuffer
       /\ timeline' = timeline
       /\ running' = running
       /\ seconds' = seconds
       /\ callModelEnd' = callModelEnd
       /\ modelStartTime' = modelStartTime
       /\ listenerIntervalId' = listenerIntervalId
       /\ callModelIntervalId' = callModelIntervalId
       /\ checkActivityIntervalId' = checkActivityIntervalId
       /\ startModelScheduleId' = startModelScheduleId
       /\ timeouts' = timeouts
       /\ startModelEvent' = startModelEvent]_vars

\* a rewind was refused while the first model call of the phrase was buffered
C25_Witness ==
  /\ log.from = "rewind" /\ ~log.accepted
  /\ Phase = "MODEL_PENDING" /\ awaitingInput /\ calls # << >>

\* C26: from LISTENING with no key held, unless there is further input, the
\* engine reaches MODEL_ACTIVE, whether and whenever the first model call
\* returns (as far as the clock of the exploration reaches).
C26_ListeningLeadsToActive ==
  \A n \in 0..MaxInputs :
    (/\ Phase = "LISTENING" /\ activeNotes = << >> /\ inputs = n
     /\ lastActivity + 3 * inputWaitTime <= MaxTime)
      ~> (Phase = "MODEL_ACTIVE" \/ inputs > n)

\* MODEL_ACTIVE was reached while the first model call had not returned
C26_Witness ==
  /\ log.from = "seedInputAwaiter" /\ log.started /\ Phase = "MODEL_ACTIVE"
  /\ Len(calls) = 2 /\ ~calls[1].scheduleImmediately

\* C27: a non-idle engine (LISTENING, MODEL_PENDING or MODEL_ACTIVE) left
\* without input is reset to IDLE by the inactivity check, also when a key was
\* left held.  The activityTimeout lies beyond the clock of the exploration;
\* what the reset needs is that the check is running: once 3 * inputWaitTime
\* have passed without input and every callback that was due has run, the
\* inactivity check is running.
C27_InactivityReset ==
  (/\ Phase \in {"LISTENING", "MODEL_PENDING", "MODEL_ACTIVE"}
   /\ now - lastActivity >= 3 * inputWaitTime
   /\ NothingDue /\ timeouts = {})
    => checkActivityIntervalId.alive

\* C28: the notes of the current History are in non-decreasing time order,
\* also after the position was moved back at MODEL_PENDING -> MODEL_ACTIVE and
\* after a rewind committed queued notes and truncated the History.
C28_Sorted ==
  currHistory # 0 =>
    LET q == histories[currHistory].noteHistory
    IN \A i, j \in 1..Len(q) : i < j => notes[q[i]].time <= notes[q[j]].time

\* a key pressed after the position was moved back: its note went in before
\* the notes of the seed
C28_Witness ==
  /\ log.from = "keyDown" /\ Phase = "MODEL_ACTIVE"
  /\ LET q == histories[currHistory].noteHistory
     IN \E i \in 1..(Len(q) - 1) :
          q[i] = Len(notes) /\ notes[q[i]].time < notes[q[i + 1]].time

\* C29: the result of a model call is applied when no reset, rewind or abort
\* came between its issue and its arrival: its notes are scheduled or
\* buffered and callModelEnd advances by the buffer duration; so too for the
\* buffered first call of a phrase arriving after MODEL_PENDING -> MODEL_ACTIVE.
C29_Applied ==
  [][(log'.from = "callModelReturn" /\ log'.stale = {}) =>
       /\ log'.result = "applied"
       /\ callModelEnd' = callModelEnd + bufferDuration
       /\ Len(notes') > Len(notes)
       /\ \A id \in (Len(notes) + 1)..Len(notes') :
            id \in Ids(noteQueue') \cup Ids(noteBuffer')]_vars

\* C30: the position set at MODEL_PENDING -> MODEL_ACTIVE is
\* roundToOffset(lastSeedNoteTime), the end of the seed, whether or not the
\* first model call has returned by then.
C30_ConfirmPosition ==
  [][(log'.from = "seedInputAwaiter" /\ log'.started) =>
       seconds' = roundToOffset([bpm |-> bpm'],
                                histories'[currHistory'].lastSeedNoteTime)]_vars

\* C31: an accepted rewind never moves the timeline forward: the new position
\* is at most one tick interval later than the position before the rewind,
\* also during playback earlier than lastSeedNoteTime - replayBuffer.
C31_NeverForward ==
  [][(log'.from = "rewind" /\ log'.accepted) =>
       seconds' <= seconds + getInterval([bpm |-> bpm'])]_vars

\* C31 as amended: an accepted rewind sets the position to roundToOffset(max(
\* position - secondsToRewind, lastSeedNoteTime - replayBuffer)); the new
\* position is at most one tick later than the position before whenever that
\* position is at least one tick later than lastSeedNoteTime - replayBuffer.
C31_RewindTarget ==
  [][(log'.from = "rewind" /\ log'.accepted) =>
       LET p == [bpm |-> bpm']
           clamp == histories'[currHistory'].lastSeedNoteTime - replaySeconds(p)
       IN /\ seconds' = roundToOffset(p, Max(seconds - secondsToRewind, clamp))
          /\ seconds >= clamp + getInterval(p)
               => seconds' <= seconds + getInterval(p)]_vars

\* a rewind during playback moved the position forward, past a note that had
\* not been played: the note was taken from the pending schedule into the
\* History
C31_Witness ==
  /\ log.from = "rewind" /\ log.accepted
  /\ \E id \in log.cancelled :
       /\ id \in Ids(histories[currHistory].noteHistory)
       /\ notes[id].time < seconds

\* C32: whenever the tone is started and no idle poll is running, a rewind
\* request is accepted, whatever happened before; so too after a reset made
\* in LISTENING or MODEL_PENDING and followed by a replay.  Stated for a
\* phrase that already holds a note.
C32_RewindAccepted ==
  [][(log'.from = "rewind" /\ toneStarted /\ ~listenerIntervalId.alive
      /\ histories[currHistory].noteHistory # << >>)
        => log'.accepted]_vars

\* C33: in a chain of rewinds within one phrase the clamp keeps using the seed
\* boundary of the phrase: the copy that an accepted rewind goes on with has
\* the lastSeedNoteTime of the History it was copied from, the new position is
\* not earlier than that boundary less the replay buffer, and no other step
\* of a sounding phrase moves the boundary of the current History.
C33_ChainClamp ==
  [][ /\ (log'.from = "rewind" /\ log'.accepted) =>
           (/\ histories'[currHistory'].parentHistory = currHistory
            /\ histories'[currHistory'].lastSeedNoteTime
                 = histories[currHistory].lastSeedNoteTime
            /\ seconds' >= histories[currHistory].lastSeedNoteTime
                             - replaySeconds([bpm |-> bpm]))
      /\ (toneStarted /\ ~awaitingInput /\ currHistory' = currHistory /\ currHistory # 0) =>
           (histories'[currHistory'].lastSeedNoteTime
              = histories[currHistory].lastSeedNoteTime) ]_vars

\* the second rewind of a chain is stopped by the clamp of the phrase's seed
C33_Witness ==
  /\ log.from = "rewind" /\ log.accepted
  /\ LET parent == histories[currHistory].parentHistory
         origin == histories[parent].parentHistory
     IN /\ parent # 0 /\ origin # 0
        /\ histories[origin].lastSeedNoteTime > 0
        /\ histories[parent].lastSeedNoteTime = histories[origin].lastSeedNoteTime
        /\ seconds = roundToOffset(This, histories[origin].lastSeedNoteTime
                                           - replaySeconds(This))

(* ------------- the scheduler guarded by isCallingModel ---------------- *)
\* The earlier Piano class (lines 1-287) guards the result of a model call
\* with one flag, isCallingModel.  Its fields are held in probe; time and
\* Tone.Transport.position are counted in units of 500 ms at defaultBPM.

\* last instant explored
MaxFlagTime == 10
\* number of model calls awaiting their result at one time
MaxFlagCalls == 2
\* number of user inputs (key events and example clicks)
MaxFlagInputs == 3
\* number of notes with a pending Tone.Transport callback
MaxFlagScheduled == 2

flagInputWait == 5
flagBufferTime == 6
flagCheckActivityPeriod == 10
flagActivityTimeout == 600
flagPlayerKey == 1
flagModelKey == 2

\* the last note of an example, after its start
FlagExamples == {0, 2 * flagBufferTime}

NoFlagLog == [from |-> "none", stale |-> FALSE, restarted |-> FALSE, scheduled |-> 0]

\* constructor
FlagPiano ==
  [now |-> 0, lastActivity |-> 0, toneStarted |-> FALSE, isCallingModel |-> FALSE,
   awaitingPlayerInput |-> TRUE, activeKeys |-> {}, noteHistory |-> 0,
   lastSeedInputPosition |-> NULL, callModelEnd |-> 0,
   listenerIntervalId |-> NoTimer, callModelIntervalId |-> NoTimer,
   checkActivityIntervalId |-> NoTimer,
   running |-> FALSE, startPending |-> FALSE, position |-> 0,
   startCallModelEvent |-> NULL, scheduled |-> 0,
   calls |-> << >>, inputs |-> 0, log |-> NoFlagLog]

FlagBegin(o, handler) == [o EXCEPT !.log = [NoFlagLog EXCEPT !.from = handler]]

startToneFlag(o) ==
  IF ~o.toneStarted THEN [o EXCEPT !.toneStarted = TRUE, !.startPending = TRUE] ELSE o

\* playNote(pianoKey, velocity, duration, actor): a note of finite duration
\* goes into noteHistory; the entry of the key in activeKeys is made or
\* overwritten
playNoteFlag(o, key, duration, actor) ==
  LET others == {k \in o.activeKeys : k.key # key}
  IN [o EXCEPT !.noteHistory = IF duration = HELD THEN @ ELSE @ + 1,
               !.activeKeys = others \cup {[key |-> key, endTime |-> duration,
                                            actor |-> actor]}]

releaseNoteFlag(o, key) ==
  LET o1 == [o EXCEPT !.lastActivity = o.now]
      active == {k \in o.activeKeys : k.key = key}
  IN IF active = {} THEN o1
     ELSE [o1 EXCEPT !.activeKeys = @ \ active,
                     !.noteHistory = IF \E k \in active : k.actor = Player
                                     THEN @ + 1 ELSE @]

RECURSIVE releaseKeysFlag(_, _)
releaseKeysFlag(o, keys) ==
  IF keys = {} THEN o
  ELSE LET key == CHOOSE k \in keys : \A j \in keys : k <= j
       IN releaseKeysFlag(releaseNoteFlag(o, key), keys \ {key})

releaseAllNotesFlag(o) ==
  releaseKeysFlag(o, {k.key : k \in {a \in o.activeKeys : a.endTime = HELD}})

\* a callModel that has not awaited anything: the call is in flight
callModelFlag(o) ==
  [o EXCEPT !.callModelEnd = @ + flagBufferTime,
            !.calls = Append(@, [stale |-> FALSE])]

\* callModel after its await: the notes are scheduled if the flag is set
callModelReturnFlag(o, i, generated) ==
  [o EXCEPT !.calls = SeqRemoveAt(@, i),
            !.scheduled = IF o.isCallingModel THEN @ + generated ELSE @,
            !.log.stale = o.calls[i].stale,
            !.log.restarted = o.isCallingModel,
            !.log.scheduled = IF o.isCallingModel THEN generated ELSE 0]

startCallModel(o) ==
  IF o.isCallingModel THEN o
  ELSE [callModelFlag([o EXCEPT !.isCallingModel = TRUE]) EXCEPT
          !.callModelIntervalId = Timer(o.now, flagBufferTime),
          !.checkActivityIntervalId = Timer(o.now, flagCheckActivityPeriod)]

\* stopCallModel(); the calls in flight are marked as issued before it
stopCallModel(o) ==
  [releaseAllNotesFlag(o) EXCEPT
     !.startCallModelEvent = NULL, !.scheduled = 0,
     !.running = FALSE, !.position = 0,
     !.noteHistory = 0, !.isCallingModel = FALSE, !.awaitingPlayerInput = TRUE,
     !.lastSeedInputPosition = NULL, !.toneStarted = FALSE,
     !.callModelIntervalId = NoTimer, !.checkActivityIntervalId = NoTimer,
     !.listenerIntervalId = NoTimer,
     !.calls = [i \in 1..Len(o.calls) |-> [stale |-> TRUE]]]

checkActivityFlag(o) ==
  IF o.now - o.lastActivity > flagActivityTimeout THEN stopCallModel(o) ELSE o

seedInputListenerFlag(o) ==
  [o EXCEPT !.listenerIntervalId =
               IF o.lastSeedInputPosition = NULL THEN Timer(o.now, 0) ELSE @,
            !.lastSeedInputPosition = o.position]

seedInputDone(o) == o.now - o.lastActivity > flagInputWait /\ o.activeKeys = {}

seedInputAwaiterFlag(o) ==
  IF seedInputDone(o)
  THEN startCallModel([o EXCEPT
         !.listenerIntervalId = NoTimer,
         !.callModelEnd = o.lastSeedInputPosition - 2 * flagBufferTime,
         !.position = o.lastSeedInputPosition - flagBufferTime,
         !.awaitingPlayerInput = FALSE,
         !.lastSeedInputPosition = NULL])
  ELSE o

keyPressedFlag(o, key) ==
  LET o1 == [startToneFlag(o) EXCEPT !.lastActivity = o.now]
      o2 == IF o1.awaitingPlayerInput THEN seedInputListenerFlag(o1) ELSE o1
  IN playNoteFlag(o2, key, HELD, Player)

playExampleFlag(o, lastNote) ==
  LET o1 == [startToneFlag([stopCallModel(o) EXCEPT !.awaitingPlayerInput = FALSE])
               EXCEPT !.lastActivity = o.now]
      lastNoteTick == o1.position + lastNote
      o2 == [o1 EXCEPT !.scheduled = @ + 1,
                       !.callModelEnd = lastNoteTick - 2 * flagBufferTime]
  IN [o2 EXCEPT !.startCallModelEvent = Max(0, o2.callModelEnd + flagBufferTime)]

FlagBounded(o) ==
  /\ Len(o.calls) <= MaxFlagCalls
  /\ o.inputs <= MaxFlagInputs
  /\ o.scheduled <= MaxFlagScheduled

\* the handler ends in state o
FlagCommit(o) ==
  /\ FlagBounded(o)
  /\ probe' = o
  /\ UNCHANGED << now, lastActivity, modelStartTime, callModelEnd, bpm, toneStarted,
                  awaitingInput, notes, histories, currHistory, allHistories,
                  activeNotes, noteQueue, noteBuffer, listenerIntervalId,
                  callModelIntervalId, checkActivityIntervalId, startModelScheduleId,
                  timeouts, running, startPending, seconds, timeline, startModelEvent, calls,
                  raised, log, run, inputs >>

FlagInput(o, handler) == [FlagBegin(o, handler) EXCEPT !.inputs = @ + 1]

FlagTimerDue(timer) == timer.alive /\ timer.due <= probe.now

FlagEventDue ==
  probe.running /\ probe.startCallModelEvent # NULL
    /\ probe.startCallModelEvent <= probe.position

\* time passes once every callback that is due has run
FlagTick ==
  /\ probe.now < MaxFlagTime
  /\ ~FlagTimerDue(probe.callModelIntervalId)
  /\ ~FlagTimerDue(probe.checkActivityIntervalId)
  /\ ~(probe.listenerIntervalId.alive /\ seedInputDone(probe))
  /\ ~FlagEventDue
  /\ FlagCommit([probe EXCEPT !.now = @ + 1,
                              !.position = IF probe.running THEN @ + 1 ELSE @])

\* Tone.start() resolves
FlagStartResolve ==
  /\ probe.startPending
  /\ FlagCommit([probe EXCEPT !.startPending = FALSE, !.running = TRUE])

FlagKeyDown ==
  /\ ~\E k \in probe.activeKeys : k.key = flagPlayerKey /\ k.endTime = HELD
  /\ FlagCommit(keyPressedFlag(FlagInput(probe, "keyDown"), flagPlayerKey))

FlagKeyUp ==
  /\ \E k \in probe.activeKeys : k.key = flagPlayerKey /\ k.endTime = HELD
  /\ FlagCommit(releaseNoteFlag(FlagInput(probe, "keyUp"), flagPlayerKey))

FlagKeyDownSpace ==
  /\ probe.inputs < MaxFlagInputs
  /\ FlagCommit(stopCallModel(FlagInput(probe, "stopCallModel")))

FlagPlayExample ==
  /\ probe.inputs < MaxFlagInputs
  /\ \E lastNote \in FlagExamples :
       FlagCommit(playExampleFlag(FlagInput(probe, "playExample"), lastNote))

FlagSeedInputAwaiter ==
  /\ probe.listenerIntervalId.alive
  /\ seedInputDone(probe)
  /\ FlagCommit(seedInputAwaiterFlag(FlagBegin(probe, "seedInputAwaiter")))

FlagCallModelInterval ==
  /\ FlagTimerDue(probe.callModelIntervalId)
  /\ FlagCommit(callModelFlag(
       [FlagBegin(probe, "callModel") EXCEPT
          !.callModelIntervalId = Timer(probe.callModelIntervalId.due, flagBufferTime)]))

FlagCheckActivity ==
  /\ FlagTimerDue(probe.checkActivityIntervalId)
  /\ FlagCommit(checkActivityFlag(
       [FlagBegin(probe, "checkActivity") EXCEPT
          !.checkActivityIntervalId =
             Timer(probe.checkActivityIntervalId.due, flagCheckActivityPeriod)]))

\* the Tone.Transport callback that playExample scheduled
FlagStartCallModelEvent ==
  /\ FlagEventDue
  /\ FlagCommit(startCallModel([FlagBegin(probe, "startCallModel") EXCEPT
                                   !.startCallModelEvent = NULL]))

\* the Tone.Transport callback of a scheduled note
FlagPlayNoteEvent ==
  /\ probe.running /\ probe.scheduled > 0
  /\ FlagCommit(playNoteFlag([FlagBegin(probe, "playNote") EXCEPT !.scheduled = @ - 1],
                             flagModelKey, 1, Model))

\* generateNotes resolves
FlagCallModelReturn ==
  \E i \in 1..Len(probe.calls), generated \in 0..1 :
    FlagCommit(callModelReturnFlag(FlagBegin(probe, "callModelReturn"), i, generated))

InitFlag == InitPiano /\ probe = FlagPiano

NextFlag ==
  \/ FlagTick
  \/ FlagStartResolve
  \/ FlagKeyDown
  \/ FlagKeyUp
  \/ FlagKeyDownSpace
  \/ FlagPlayExample
  \/ FlagSeedInputAwaiter
  \/ FlagCallModelInterval
  \/ FlagCheckActivity
  \/ FlagStartCallModelEvent
  \/ FlagPlayNoteEvent
  \/ FlagCallModelReturn

SpecFlag == InitFlag /\ [][NextFlag]_vars

\* C34: in the flag-guarded scheduler the result of a model call that was
\* issued before a stopCallModel() and arrives after the model was started
\* again schedules no note.
C34_StaleDropped ==
  (probe.log.from = "callModelReturn" /\ probe.log.stale /\ probe.log.restarted)
     => probe.log.scheduled = 0

\* C35: no timer is left running by the handler that sets another one in its
\* place: the scheduler timer, the inactivity-check timer and the idle-poll
\* timer each run at most once, also when the scheduler is started again.
C35_OneTimerEach == log.leaked = {}

\* the rewind debounce starts the scheduler again: the timers of the earlier
\* run are gone and one timer of each kind runs
C35_Witness ==
  /\ log.from = "startModelTimeout" /\ log.started
  /\ log.leaked = {}
  /\ callModelIntervalId.alive /\ checkActivityIntervalId.alive
  /\ callModelIntervalId.due = now + beatsToSeconds(This, bufferBeats)
  /\ Len(allHistories) >= 1
=============================================================================
